---- MODULE Spec2Model ----
(***************************************************************************)
(* Model of data_harvester/main.py: the Cloud Function entry point         *)
(* chronicle_harvester_agent and its helper ingest_data_entry.             *)
(*                                                                         *)
(* One invocation is a process with a program counter.  Its steps are the  *)
(* places where the handler talks to the outside world: constructing the   *)
(* storage client, the GET, one loop iteration per selected entry (with    *)
(* the upload it makes) and the return.  Several invocations may overlap   *)
(* and share the bucket.                                                   *)
(*                                                                         *)
(* Python values are modelled as tagged records (kind = "object", "array", *)
(* "string", "number", "float", "bool", "null"); a dict is the sequence of  *)
(* its <<key, value>> items in insertion order.  A str that comes from the *)
(* feed, and the JSON text made of it, is the sequence of its Unicode code *)
(* points; a str the handler builds from ASCII parts (object names, error  *)
(* messages) is a string.  Clock readings and uuid4 draws are              *)
(* nondeterministic choices.  The bucket starts empty or with an object   *)
(* an earlier invocation left, and records the uploads made under each    *)
(* name in their order.                                                    *)
(***************************************************************************)
EXTENDS Integers, Sequences, FiniteSets, TLC

\* ---------------------------------------------------------------- bounds
\* Number of invocations that may overlap (specification SpecOverlap).
NumInv == 2
\* Longest array the endpoint serves (Spec) / serves to overlapping
\* invocations (SpecOverlap).
MaxFeedLen == 4
MaxOverlapLen == 2
\* Distinct readings of datetime.now() and distinct values of uuid4().hex[:8].
MaxTime == 2
NumSuffix == 2

\* ------------------------------------------------------ program constants
MOCK_DATA_URL == "https://jsonplaceholder.typicode.com/posts"
\* The slice bound of mock_data_entries[:3].
SampleSize == 3

Min(a, b) == IF a < b THEN a ELSE b

\* ------------------------------------------------------------ characters
\* The printable ASCII characters 32..95 and 97..126, in code order.
AsciiLow == " !\"#$%&'()*+,-./0123456789:;<=>?@ABCDEFGHIJKLMNOPQRSTUVWXYZ[\\]^_"
AsciiHigh == "abcdefghijklmnopqrstuvwxyz{|}~"
\* ord(ch) of a one-character string.
Ord(ch) ==
    IF \E k \in 1..Len(AsciiLow) : SubSeq(AsciiLow, k, k) = ch
    THEN 31 + CHOOSE k \in 1..Len(AsciiLow) : SubSeq(AsciiLow, k, k) = ch
    ELSE 96 + CHOOSE k \in 1..Len(AsciiHigh) : SubSeq(AsciiHigh, k, k) = ch
\* The code points of an ASCII string.
Str(s) == [j \in 1..Len(s) |-> Ord(SubSeq(s, j, j))]

\* ----------------------------------------------------------- JSON values
\* An int, a str (its code points), a float (by the code points of its
\* repr), True/False, None,
\* a list and a dict.
JNum(n) == [kind |-> "number", num |-> n]
JStr(s) == [kind |-> "string", str |-> s]
JFloat(r) == [kind |-> "float", repr |-> r]
JBool(b) == [kind |-> "bool", bool |-> b]
JNull == [kind |-> "null"]
JArr(items) == [kind |-> "array", items |-> items]
JObj(members) == [kind |-> "object", members |-> members]
\* A response body that is not JSON text at all.
NotJson == [kind |-> "invalid"]

\* The records of the mock feed, and a record that already carries one of
\* the keys the handler injects.
K_id == Str("id")
K_title == Str("title")
K_score == Str("score")
K_tags == Str("tags")
K_harvest_timestamp == Str("harvest_timestamp")
K_source_url == Str("source_url")
K_agent == Str("agent")
\* A title with a quote, a line break, a non-ASCII letter and a character
\* outside the basic plane: qui "est"\n caf(U+00E9) (U+1F600)
Title == Str("qui \"est\"") \o <<10>> \o Str("caf") \o <<233, 32, 128512>>
Rec(n) == JObj(<< <<K_id, JNum(n)>>, <<K_title, JStr(Title)>> >>)
Tagged(n) ==
    JObj(<< <<K_agent, JStr(Str("Upstream"))>>,
            <<K_id, JNum(n)>>,
            <<K_score, JFloat(Str("1.5"))>>,
            <<K_tags, JArr(<<JNum(1), JObj(<< <<Str("a"), JNull>> >>), JArr(<< >>)>>)>> >>)
\* What may stand at one position of a served array instead of Rec.
OddElements(n) == {Tagged(n), JNum(7), JStr(Str("x"))}

\* Arrays of length m whose elements are Rec(1..m), with at most one
\* position p holding an odd element: any of them within the part the
\* handler selects, a number at the end of a longer array.
FeedArray(m, p, odd) == JArr([j \in 1..m |-> IF j = p THEN odd ELSE Rec(j)])
PlainArrays(maxlen) == {FeedArray(m, 0, JNull) : m \in 0..maxlen}
Arrays(maxlen) ==
    PlainArrays(maxlen)
    \cup UNION {UNION {{FeedArray(m, p, odd) : odd \in OddElements(p)}
                       : p \in 1..Min(m, SampleSize)} : m \in 1..maxlen}
    \cup {FeedArray(m, m, JNum(7)) : m \in (SampleSize + 1)..maxlen}
NonArrays ==
    {JObj(<< <<K_id, JNum(1)>> >>), JObj(<< >>), JStr(<< >>), JStr(Str("ab")),
     JStr(Str("abcd")), JNum(7), JFloat(Str("1.5")), JBool(TRUE), JNull}
Bodies == Arrays(MaxFeedLen) \cup NonArrays \cup {NotJson}
OverlapBodies == PlainArrays(MaxOverlapLen)

\* Status codes the endpoint may answer with, and the reason phrases that
\* may come with them.
Statuses == {200, 300, 404, 500}
Reasons(s) ==
    CASE s = 200 -> {"OK"}
      [] s = 300 -> {"Multiple Choices"}
      [] s = 404 -> {"Not Found"}
      [] OTHER -> {"Internal Server Error", "Server Error"}
\* str(e) of the exceptions the environment may raise: requests.get
\* (transport), response.json() on text that is not JSON, and the storage
\* calls of ingest_data_entry.  The storage library sends its requests
\* through requests, so a storage call raises either an API error or a
\* requests.exceptions.RequestException.
TransportErrors == {"connection refused", "timed out"}
JsonDecodeText == "Expecting value: line 1 column 1 (char 0)"
StorageApiErrors == {"403 Forbidden"}
StorageRequestErrors == {"connection reset by peer"}
StorageErrors == StorageApiErrors \cup StorageRequestErrors

Timestamps == 1..MaxTime
Suffixes == 0..(NumSuffix - 1)

\* --------------------------------------------------------- Python helpers
\* datetime.datetime.now().isoformat() for clock reading t.
IsoFormat(t) == "2025-06-23T12:00:00.00000" \o ToString(t)
\* uuid.uuid4().hex[:8] for a uuid whose leading digits are n.
Hex8(n) == "0000000" \o ToString(n)

\* (variant: the name is built from the timestamp alone)
FileName_NoSuffix(t, n) == "raw_data/" \o IsoFormat(t) \o ".json"
\* f"raw_data/{timestamp}-{uuid.uuid4().hex[:8]}.json"
FileName(t, n) == "raw_data/" \o IsoFormat(t) \o "-" \o Hex8(n) \o ".json"

\* (variant: only 5xx raises)
RaisesForStatus_ServerOnly(s) == 500 <= s /\ s < 600
\* response.raise_for_status(): raises HTTPError for 4xx and 5xx.
RaisesForStatus(s) == 400 <= s /\ s < 600
\* str(e) of that HTTPError.
HttpErrorText(s, reason) ==
    ToString(s) \o (IF s < 500 THEN " Client Error: " ELSE " Server Error: ")
    \o reason \o " for url: " \o MOCK_DATA_URL

\* type(v).__name__
TypeName(v) ==
    CASE v.kind = "number" -> "int"
      [] v.kind = "float" -> "float"
      [] v.kind = "string" -> "str"
      [] v.kind = "bool" -> "bool"
      [] v.kind = "null" -> "NoneType"
      [] v.kind = "array" -> "list"
      [] OTHER -> "dict"

\* v[:3] is defined for lists and strings only; a dict, a number, a bool
\* and None raise.
Sliceable(v) == v.kind \in {"array", "string"}
\* str(e) when v[:3] raises: a dict gives TypeError (slices unhashable,
\* Python < 3.12) or KeyError (Python >= 3.12), the rest TypeError.
SliceErrors(v) ==
    IF v.kind = "object"
    THEN {"unhashable type: 'slice'", "slice(None, 3, None)"}
    ELSE {"'" \o TypeName(v) \o "' object is not subscriptable"}
\* (variant: the whole list is processed, no [:3])
Slice_Whole(v, n) ==
    IF v.kind = "array"
    THEN v.items
    ELSE [j \in 1..Len(v.str) |-> JStr(<<v.str[j]>>)]
Slice(v, n) ==
    IF v.kind = "array"
    THEN SubSeq(v.items, 1, Min(n, Len(v.items)))
    ELSE [j \in 1..Min(n, Len(v.str)) |-> JStr(<<v.str[j]>>)]

\* entry[k] = v is defined for dicts only (a str, a list with a str index,
\* a number and None raise TypeError).
Assignable(entry) == entry.kind = "object"
\* str(e) of the TypeError of entry['harvest_timestamp'] = ...
AssignError(entry) ==
    IF entry.kind = "array"
    THEN "list indices must be integers or slices, not str"
    ELSE "'" \o TypeName(entry) \o "' object does not support item assignment"
Keys(entry) == {entry.members[j][1] : j \in 1..Len(entry.members)}
Get(entry, k) ==
    LET j == CHOOSE j \in 1..Len(entry.members) : entry.members[j][1] = k
    IN  entry.members[j][2]
\* dict item assignment: an existing key keeps its place, a new key is
\* appended.
SetItem(entry, k, v) ==
    IF \E j \in 1..Len(entry.members) : entry.members[j][1] = k
    THEN JObj([j \in 1..Len(entry.members) |->
                 IF entry.members[j][1] = k THEN <<k, v>> ELSE entry.members[j]])
    ELSE JObj(Append(entry.members, <<k, v>>))

\* The values the loop body assigns, as strs.
HarvestTimes == [t \in Timestamps |-> Str(IsoFormat(t))]
SourceUrl == Str(MOCK_DATA_URL)
AgentName == Str("ChronicleHarvester")

\* (variant: the metadata is put in a new dict instead of the entry)
Annotate_Fresh(entry, t) ==
    JObj(<< <<K_harvest_timestamp, JStr(HarvestTimes[t])>>,
            <<K_source_url, JStr(SourceUrl)>>,
            <<K_agent, JStr(AgentName)>> >>)
\* The three assignments of the loop body.
Annotate(entry, t) ==
    SetItem(SetItem(SetItem(entry, K_harvest_timestamp, JStr(HarvestTimes[t])),
                    K_source_url, JStr(SourceUrl)),
            K_agent, JStr(AgentName))

\* ------------------------------------------------------------ json.dumps
\* '\\u{0:04x}'.format(c), as code points.
HexDigit(d) == IF d < 10 THEN 48 + d ELSE 87 + d
Hex4(c) ==
    <<92, 117, HexDigit(c \div 4096), HexDigit((c \div 256) % 16),
      HexDigit((c \div 16) % 16), HexDigit(c % 16)>>
\* The replacement of one character of a str (ensure_ascii is on): the
\* two-character escapes, the character itself when it is in ' '..'~',
\* \uXXXX otherwise, as a surrogate pair above U+FFFF.
EscapeChar(c) ==
    CASE c = 34 -> <<92, 34>>
      [] c = 92 -> <<92, 92>>
      [] c = 10 -> <<92, 110>>
      [] c = 13 -> <<92, 114>>
      [] c = 9 -> <<92, 116>>
      [] c = 12 -> <<92, 102>>
      [] c = 8 -> <<92, 98>>
      [] c >= 32 /\ c <= 126 -> <<c>>
      [] c >= 65536 -> Hex4(55296 + ((c - 65536) \div 1024))
                       \o Hex4(56320 + ((c - 65536) % 1024))
      [] OTHER -> Hex4(c)
\* The characters that are their own replacement.
Plain(c) == c >= 32 /\ c <= 126 /\ c # 34 /\ c # 92
\* The replacements of the characters from position k on.
RECURSIVE EscapeFrom(_, _)
EscapeFrom(codes, k) ==
    IF k > Len(codes) THEN << >>
    ELSE EscapeChar(codes[k]) \o EscapeFrom(codes, k + 1)
\* A str in which no character needs a replacement is its own escape.
EscapeAll(codes) ==
    IF \A k \in 1..Len(codes) : Plain(codes[k]) THEN codes
    ELSE EscapeFrom(codes, 1)
\* json.dumps of a str: the quoted, escaped text.
EncodeString(codes) == <<34>> \o EscapeAll(codes) \o <<34>>

\* The tokens of JSON text that are not strs or numbers.
T_lbrace == <<123>>
T_rbrace == <<125>>
T_lbracket == <<91>>
T_rbracket == <<93>>
T_colon == <<58>>
T_comma == <<44>>
T_true == Str("true")
T_false == Str("false")
T_null == Str("null")
T_NaN == Str("NaN")
T_Infinity == Str("Infinity")
T_NegInfinity == Str("-Infinity")

\* int.__repr__: the decimal digits, with a sign for a negative int.
RECURSIVE Digits(_)
Digits(n) ==
    IF n < 10 THEN <<48 + n>> ELSE Append(Digits(n \div 10), 48 + (n % 10))
IntRepr(n) == IF n < 0 THEN <<45>> \o Digits(0 - n) ELSE Digits(n)
R_nan == Str("nan")
R_inf == Str("inf")
R_neginf == Str("-inf")

\* json.dumps of a scalar: the code points of its JSON text.  An int is
\* its decimal digits, a float its repr (NaN and the infinities by their
\* JavaScript names).
EncodeScalar(v) ==
    CASE v.kind = "number" -> IntRepr(v.num)
      [] v.kind = "float" ->
            CASE v.repr = R_nan -> T_NaN
              [] v.repr = R_inf -> T_Infinity
              [] v.repr = R_neginf -> T_NegInfinity
              [] OTHER -> v.repr
      [] v.kind = "string" -> EncodeString(v.str)
      [] v.kind = "bool" -> IF v.bool THEN T_true ELSE T_false
      [] v.kind = "null" -> T_null

\* json.dumps(value, indent=2) as the sequence of the tokens of its text,
\* each token the code points of a scalar, of a quoted key, or of one of
\* { } [ ] : and , (the line breaks and spaces that indent=2 puts between
\* tokens are insignificant in JSON and left out).
RECURSIVE DumpValue(_), DumpItems(_), DumpElems(_)
DumpValue(v) ==
    CASE v.kind = "object" -> <<T_lbrace>> \o DumpItems(v.members) \o <<T_rbrace>>
      [] v.kind = "array" -> <<T_lbracket>> \o DumpElems(v.items) \o <<T_rbracket>>
      [] OTHER -> <<EncodeScalar(v)>>
DumpItems(members) ==
    IF members = << >> THEN << >>
    ELSE LET m == members[1]
             rest == DumpItems(Tail(members))
         IN  <<EncodeString(m[1]), T_colon>> \o DumpValue(m[2])
             \o (IF rest = << >> THEN << >> ELSE <<T_comma>> \o rest)
DumpElems(items) ==
    IF items = << >> THEN << >>
    ELSE LET rest == DumpElems(Tail(items))
         IN  DumpValue(items[1])
             \o (IF rest = << >> THEN << >> ELSE <<T_comma>> \o rest)
\* json.dumps(entry_data, indent=2)
Dumps(entry) == DumpValue(entry)

\* ------------------------------------------------------------------ state
VARIABLES
    feed,            \* the body the endpoint serves
    pool,            \* the invocations that are triggered
    prior,           \* the bucket as earlier invocations left it
    bucket,          \* object name -> blob
    writes,          \* object name -> the uploads made under it, in order
    pc,              \* per invocation: position in the handler
    status,          \* per invocation: what requests.get gave
    batch,           \* per invocation: mock_data_entries[:3], annotated in place
    idx,             \* per invocation: position of the for loop
    uploaded_files,  \* per invocation: the list uploaded_files
    ops,             \* per invocation: the external calls made so far
    result           \* per invocation: the (body, code) returned

vars == <<feed, pool, prior, bucket, writes, pc, status, batch, idx, uploaded_files,
          ops, result>>

Invocations == 1..NumInv

NoResult == [body |-> [status |-> "none"], code |-> 0]
Success(files) == [body |-> [status |-> "success", uploaded_files |-> files],
                   code |-> 200]
\* The results of the two except clauses, e being str(exception).
RequestFailed(e) ==
    [body |-> [status |-> "error", message |-> "HTTP request failed: " \o e],
     code |-> 500]
\* (variant: the catch-all result also lists uploaded_files)
Unexpected_WithFiles(e) ==
    [body |-> [status |-> "error",
               message |-> "An unexpected error occurred: " \o e,
               uploaded_files |-> << >>],
     code |-> 500]
Unexpected(e) ==
    [body |-> [status |-> "error",
               message |-> "An unexpected error occurred: " \o e],
     code |-> 500]

\* What requests.get gave: nothing yet, a transport error, or a response
\* with its status code and reason phrase.
NotFetched == [got |-> "nothing"]
TransportError == [got |-> "exception"]
Response(s, reason) == [got |-> "response", code |-> s, reason |-> reason]

\* blob.upload_from_string(json_data, content_type="application/json"):
\* creates the object or replaces the one of the same name.
Upload(b, name, data) ==
    [k \in DOMAIN b \cup {name} |->
        IF k = name THEN [data |-> data, content_type |-> "application/json"]
        ELSE b[k]]
\* The upload who = <<invocation, call>> is the latest one under name.
RecordWrite(w, name, who) ==
    [k \in DOMAIN w \cup {name} |->
        IF k = name
        THEN (IF name \in DOMAIN w THEN Append(w[name], who) ELSE <<who>>)
        ELSE w[k]]

\* What an earlier invocation may have left in the bucket: nothing, or the
\* record of an earlier feed under a name of the same pattern.
Priors ==
    {<< >>, Upload(<< >>, FileName(1, 0), Dumps(Annotate(Rec(0), 1)))}

InitWith(bodies, invs, buckets) ==
    /\ feed \in bodies
    /\ pool = invs
    /\ prior \in buckets
    /\ bucket = prior
    /\ writes = << >>
    /\ pc = [i \in Invocations |-> "start"]
    /\ status = [i \in Invocations |-> NotFetched]
    /\ batch = [i \in Invocations |-> << >>]
    /\ idx = [i \in Invocations |-> 1]
    /\ uploaded_files = [i \in Invocations |-> << >>]
    /\ ops = [i \in Invocations |-> << >>]
    /\ result = [i \in Invocations |-> NoResult]

Init == InitWith(Bodies, {1}, Priors)
InitOverlap == InitWith(OverlapBodies, Invocations, Priors)

\* The handler returns r.
Finish(i, r) ==
    /\ pc' = [pc EXCEPT ![i] = "done"]
    /\ result' = [result EXCEPT ![i] = r]

\* storage.Client(project=GCP_PROJECT_ID), before the try block: an
\* exception here (no ambient credentials) leaves the handler uncaught.
ConstructClient(i) ==
    /\ pc[i] = "start"
    /\ \/ pc' = [pc EXCEPT ![i] = "fetch"]
       \/ pc' = [pc EXCEPT ![i] = "raised"]
    /\ UNCHANGED <<feed, pool, prior, bucket, writes, status, batch, idx,
                   uploaded_files, ops, result>>

\* (variant: a failed GET is tried again)
GetRaised_Retry(i) ==
    /\ status' = [status EXCEPT ![i] = TransportError]
    /\ ops' = [ops EXCEPT ![i] = Append(@, [op |-> "GET", ok |-> FALSE])]
    /\ UNCHANGED <<pc, result, batch, idx, uploaded_files>>
\* requests.get raises (connection error, timeout, ...): the first except
\* clause returns.
GetRaised(i) ==
    /\ status' = [status EXCEPT ![i] = TransportError]
    /\ ops' = [ops EXCEPT ![i] = Append(@, [op |-> "GET", ok |-> FALSE])]
    /\ \E e \in TransportErrors : Finish(i, RequestFailed(e))
    /\ UNCHANGED <<batch, idx, uploaded_files>>

\* requests.get, raise_for_status, response.json(), uploaded_files = [] and
\* the evaluation of mock_data_entries[:3].
Fetch(i) ==
    /\ pc[i] = "fetch"
    /\ \/ GetRaised(i)
       \/ \E s \in Statuses : \E reason \in Reasons(s) :
          /\ status' = [status EXCEPT ![i] = Response(s, reason)]
          /\ ops' = [ops EXCEPT ![i] =
                       Append(@, [op |-> "GET", ok |-> ~RaisesForStatus(s)])]
          /\ IF RaisesForStatus(s)
             THEN /\ Finish(i, RequestFailed(HttpErrorText(s, reason)))
                  /\ UNCHANGED <<batch, idx, uploaded_files>>
             ELSE IF feed = NotJson
             THEN \* JSONDecodeError: a RequestException in requests >= 2.27,
                  \* a plain ValueError before
                  /\ \/ Finish(i, RequestFailed(JsonDecodeText))
                     \/ Finish(i, Unexpected(JsonDecodeText))
                  /\ UNCHANGED <<batch, idx, uploaded_files>>
             ELSE IF ~Sliceable(feed)
             THEN /\ \E e \in SliceErrors(feed) : Finish(i, Unexpected(e))
                  /\ UNCHANGED <<batch, idx, uploaded_files>>
             ELSE /\ batch' = [batch EXCEPT ![i] = Slice(feed, SampleSize)]
                  /\ idx' = [idx EXCEPT ![i] = 1]
                  /\ uploaded_files' = [uploaded_files EXCEPT ![i] = << >>]
                  /\ pc' = [pc EXCEPT ![i] = "loop"]
                  /\ UNCHANGED result
    /\ UNCHANGED <<feed, pool, prior, bucket, writes>>

\* (variant: a failed upload is skipped and the loop goes on)
UploadRaised_Swallow(i, call, e) ==
    /\ ops' = [ops EXCEPT ![i] = Append(@, call)]
    /\ idx' = [idx EXCEPT ![i] = @ + 1]
    /\ UNCHANGED <<pc, result, bucket, writes, uploaded_files>>
\* client.bucket, bucket.blob or upload_from_string raises: the exception
\* leaves the loop, and the first except clause returns if it is a
\* RequestException, the catch-all clause otherwise.
UploadRaised(i, call, e) ==
    /\ ops' = [ops EXCEPT ![i] = Append(@, call)]
    /\ IF e \in StorageRequestErrors
       THEN Finish(i, RequestFailed(e))
       ELSE Finish(i, Unexpected(e))
    /\ UNCHANGED <<bucket, writes, idx, uploaded_files>>

\* One iteration of the for loop: the three assignments to entry, then
\* ingest_data_entry(entry, storage_client) and the append.
IngestEntry(i) ==
    /\ pc[i] = "loop"
    /\ idx[i] <= Len(batch[i])
    /\ LET entry == batch[i][idx[i]] IN
       IF ~Assignable(entry)
       THEN \* TypeError at entry['harvest_timestamp'] = ...
            /\ Finish(i, Unexpected(AssignError(entry)))
            /\ UNCHANGED <<bucket, writes, batch, idx, uploaded_files, ops>>
       ELSE \E now1 \in Timestamps :
            \E annotated \in {Annotate(entry, now1)} :
            \E json_data \in {Dumps(annotated)} :
                /\ batch' = [batch EXCEPT ![i][idx[i]] = annotated]
                /\ \/ \* the upload succeeds
                      \E now2 \in Timestamps, uuid \in Suffixes :
                      LET file_name == FileName(now2, uuid) IN
                      /\ bucket' = Upload(bucket, file_name, json_data)
                      /\ writes' = RecordWrite(writes, file_name,
                                               <<i, Len(ops[i]) + 1>>)
                      /\ ops' = [ops EXCEPT ![i] = Append(@,
                                   [op |-> "upload", entry |-> idx[i],
                                    timestamp |-> now2, suffix |-> uuid,
                                    key |-> file_name, data |-> json_data,
                                    ok |-> TRUE])]
                      /\ uploaded_files' =
                            [uploaded_files EXCEPT ![i] = Append(@, file_name)]
                      /\ idx' = [idx EXCEPT ![i] = @ + 1]
                      /\ UNCHANGED <<pc, result>>
                   \/ \* a storage call raises; the name drawn for the
                      \* object is lost with the frame of ingest_data_entry
                      \E e \in StorageErrors :
                         UploadRaised(i, [op |-> "upload", entry |-> idx[i],
                                          ok |-> FALSE], e)
    /\ UNCHANGED <<feed, pool, prior, status>>

\* (variant: the return statement sits inside the loop body)
Return_InLoop(i) ==
    /\ pc[i] = "loop"
    /\ idx[i] > Min(1, Len(batch[i]))
    /\ Finish(i, Success(uploaded_files[i]))
    /\ UNCHANGED <<feed, pool, prior, bucket, writes, status, batch, idx,
                   uploaded_files, ops>>
\* The loop is exhausted: return {"status": "success", ...}, 200.
Return(i) ==
    /\ pc[i] = "loop"
    /\ idx[i] > Len(batch[i])
    /\ Finish(i, Success(uploaded_files[i]))
    /\ UNCHANGED <<feed, pool, prior, bucket, writes, status, batch, idx,
                   uploaded_files, ops>>

\* chronicle_harvester_agent(request), one step at a time.
chronicle_harvester_agent(i) ==
    \/ ConstructClient(i)
    \/ Fetch(i)
    \/ IngestEntry(i)
    \/ Return(i)

Next == \E i \in pool : chronicle_harvester_agent(i)

\* One invocation against every body the endpoint may serve.
Spec == Init /\ [][Next]_vars
\* Overlapping invocations over the same feed, sharing the bucket.
SpecOverlap == InitOverlap /\ [][Next]_vars

\* ------------------------------------------------- vocabulary of the claims
Done(i) == pc[i] = "done"
IsSuccess(i) == result[i].code = 200 /\ result[i].body.status = "success"
IsError(i) ==
    /\ result[i].code = 500
    /\ result[i].body.status = "error"
    /\ DOMAIN result[i].body = {"status", "message"}

\* The GET returned a response and raise_for_status let it pass.
FetchPassed(i) ==
    /\ status[i].got = "response"
    /\ ~(400 <= status[i].code /\ status[i].code <= 599)

IsUpload(i, j) == j \in 1..Len(ops[i]) /\ ops[i][j].op = "upload"
IsStored(i, j) == IsUpload(i, j) /\ ops[i][j].ok
StoredCalls(i) == {j \in 1..Len(ops[i]) : IsStored(i, j)}
NoUploadFailed(i) == \A j \in 1..Len(ops[i]) : IsUpload(i, j) => ops[i][j].ok
NoUploadAttempted(i) == \A j \in 1..Len(ops[i]) : ~IsUpload(i, j)

\* The latest upload made under key k, as <<invocation, call>>, and the
\* objects invocation i created: the keys that named no object before its
\* upload.
Writer(k) == writes[k][Len(writes[k])]
Created(i) == {k \in DOMAIN writes \ DOMAIN prior : writes[k][1][1] = i}

IsArrayOfMappings(v) ==
    /\ v.kind = "array"
    /\ \A j \in 1..Len(v.items) : v.items[j].kind = "object"
Range(seq) == {seq[j] : j \in 1..Len(seq)}

\* Parsing the stored text back (json.loads), token by token.
HexVal(c) == IF c <= 57 THEN c - 48 ELSE IF c >= 97 THEN c - 87 ELSE c - 55
Hex4Val(t, p) ==
    HexVal(t[p]) * 4096 + HexVal(t[p + 1]) * 256 + HexVal(t[p + 2]) * 16
    + HexVal(t[p + 3])
SimpleEscape(c) ==
    CASE c = 110 -> 10 [] c = 114 -> 13 [] c = 116 -> 9 [] c = 102 -> 12
      [] c = 98 -> 8 [] OTHER -> c
\* The characters of the escaped text t from position p on.
RECURSIVE UnescapeFrom(_, _)
UnescapeFrom(t, p) ==
    IF p > Len(t) THEN << >>
    ELSE IF t[p] # 92 THEN <<t[p]>> \o UnescapeFrom(t, p + 1)
    ELSE IF t[p + 1] # 117
    THEN <<SimpleEscape(t[p + 1])>> \o UnescapeFrom(t, p + 2)
    ELSE LET u == Hex4Val(t, p + 2) IN
         IF /\ u >= 55296 /\ u <= 56319
            /\ Len(t) >= p + 11 /\ t[p + 6] = 92 /\ t[p + 7] = 117
            /\ Hex4Val(t, p + 8) >= 56320 /\ Hex4Val(t, p + 8) <= 57343
         THEN <<65536 + (u - 55296) * 1024 + (Hex4Val(t, p + 8) - 56320)>>
              \o UnescapeFrom(t, p + 12)
         ELSE <<u>> \o UnescapeFrom(t, p + 6)
Unescape(t) ==
    IF \A k \in 1..Len(t) : t[k] # 92 THEN t ELSE UnescapeFrom(t, 1)
DecodeString(token) == Unescape(SubSeq(token, 2, Len(token) - 1))
RECURSIVE ParseDigits(_)
ParseDigits(codes) ==
    IF codes = << >> THEN 0
    ELSE ParseDigits(SubSeq(codes, 1, Len(codes) - 1)) * 10
         + (codes[Len(codes)] - 48)
DecodeScalar(token) ==
    CASE token[1] = 34 -> JStr(DecodeString(token))
      [] token = T_true -> JBool(TRUE)
      [] token = T_false -> JBool(FALSE)
      [] token = T_null -> JNull
      [] token = T_NaN -> JFloat(R_nan)
      [] token = T_Infinity -> JFloat(R_inf)
      [] token = T_NegInfinity -> JFloat(R_neginf)
      [] \E k \in 1..Len(token) : token[k] \in {46, 101, 69} -> JFloat(token)
      [] token[1] = 45 -> JNum(0 - ParseDigits(Tail(token)))
      [] OTHER -> JNum(ParseDigits(token))
RECURSIVE MakeDict(_)
MakeDict(pairs) ==
    IF pairs = << >> THEN JObj(<< >>)
    ELSE SetItem(MakeDict(SubSeq(pairs, 1, Len(pairs) - 1)),
                 pairs[Len(pairs)][1], pairs[Len(pairs)][2])
RECURSIVE ParseValue(_, _), ParseMembers(_, _), ParseElems(_, _)
ParseValue(t, p) ==
    IF t[p] = T_lbrace
    THEN LET r == ParseMembers(t, p + 1)
         IN  [val |-> MakeDict(r.val), next |-> r.next]
    ELSE IF t[p] = T_lbracket
    THEN LET r == ParseElems(t, p + 1)
         IN  [val |-> JArr(r.val), next |-> r.next]
    ELSE [val |-> DecodeScalar(t[p]), next |-> p + 1]
ParseMembers(t, p) ==
    IF t[p] = T_rbrace THEN [val |-> << >>, next |-> p + 1]
    ELSE LET v == ParseValue(t, p + 2)
             q == IF t[v.next] = T_comma THEN v.next + 1 ELSE v.next
             rest == ParseMembers(t, q)
         IN  [val |-> << <<DecodeString(t[p]), v.val>> >> \o rest.val,
              next |-> rest.next]
ParseElems(t, p) ==
    IF t[p] = T_rbracket THEN [val |-> << >>, next |-> p + 1]
    ELSE LET v == ParseValue(t, p)
             q == IF t[v.next] = T_comma THEN v.next + 1 ELSE v.next
             rest == ParseElems(t, q)
         IN  [val |-> <<v.val>> \o rest.val, next |-> rest.next]
Loads(text) == ParseValue(text, 1).val

InjectedKeys == {K_harvest_timestamp, K_source_url, K_agent}
ExpectedUrl == JStr(Str("https://jsonplaceholder.typicode.com/posts"))
ExpectedAgent == JStr(Str("ChronicleHarvester"))
ExpectedTimes == [t \in Timestamps |-> JStr(Str(IsoFormat(t)))]
HasPrefix(str, prefix) ==
    Len(str) >= Len(prefix) /\ SubSeq(str, 1, Len(prefix)) = prefix

\* ----------------------------------------------------------------- C1
\* C1 (as stated): when the fetch gives an array of M mappings and no
\* upload fails, exactly min(M,3) objects are added to the bucket and the
\* result is success/200 with min(M,3) paths, the i-th being the key of the
\* i-th source element.
C1_AsStated ==
    \A i \in pool :
        (Done(i) /\ FetchPassed(i) /\ IsArrayOfMappings(feed) /\ NoUploadFailed(i))
        => LET n == Min(Len(feed.items), 3) IN
           /\ IsSuccess(i)
           /\ Len(result[i].body.uploaded_files) = n
           /\ \A j \in 1..n : /\ IsStored(i, j + 1)
                              /\ ops[i][j + 1].entry = j
                              /\ result[i].body.uploaded_files[j] = ops[i][j + 1].key
           /\ Cardinality(Created(i)) = n

\* C1 (amended): under the same conditions exactly min(M,3) uploads are
\* made, one per selected element in source order, and the result is
\* success/200 listing their min(M,3) keys in that order; every listed key
\* names an object; the invocation adds one object for each distinct key
\* among them that named no object when it was uploaded, which is min(M,3)
\* objects exactly when the keys are pairwise distinct and none of them
\* named an object before.
C1_Uploads ==
    \A i \in pool :
        (Done(i) /\ FetchPassed(i) /\ IsArrayOfMappings(feed) /\ NoUploadFailed(i))
        => LET n == Min(Len(feed.items), 3)
               paths == result[i].body.uploaded_files
           IN  /\ IsSuccess(i)
               /\ Len(paths) = n
               /\ Len(ops[i]) = n + 1
               /\ \A j \in 1..n : /\ IsStored(i, j + 1)
                                  /\ ops[i][j + 1].entry = j
                                  /\ paths[j] = ops[i][j + 1].key
                                  /\ Get(Loads(ops[i][j + 1].data), K_id)
                                        = Get(feed.items[j], K_id)
               /\ Range(paths) \subseteq DOMAIN bucket
               /\ DOMAIN bucket = DOMAIN prior \cup DOMAIN writes
               /\ Created(i) \subseteq Range(paths)
               /\ Cardinality(Created(i)) <= n
               /\ (Cardinality(Created(i)) = n)
                     <=> /\ \A j, h \in 1..n : j # h => paths[j] # paths[h]
                         /\ \A j \in 1..n : /\ paths[j] \notin DOMAIN prior
                                            /\ writes[paths[j]][1][1] = i

\* A feed of 4 mappings harvested into a bucket that already held an
\* object: 3 objects are added.
C1_Witness ==
    /\ Done(1) /\ IsSuccess(1)
    /\ IsArrayOfMappings(feed) /\ Len(feed.items) = 4
    /\ prior # << >>
    /\ Cardinality(Created(1)) = 3

\* ----------------------------------------------------------------- C2
StoredFor(k, i, j) ==
    /\ IsStored(i, j)
    /\ ops[i][j].key = k
    /\ ops[i][j].data = bucket[k].data
SourceOf(i, j) == feed.items[ops[i][j].entry]

\* C2 (as stated): a stored body has exactly the record's keys plus the
\* three injected ones, every original key keeps its original value,
\* source_url is the endpoint and agent is "ChronicleHarvester".
C2_AsStated ==
    \A k \in DOMAIN writes : \E i \in pool : \E j \in 1..Len(ops[i]) :
        /\ StoredFor(k, i, j)
        /\ LET body == Loads(bucket[k].data)
               orig == SourceOf(i, j)
           IN  /\ Keys(body) = Keys(orig) \cup InjectedKeys
               /\ \A x \in Keys(orig) : Get(body, x) = Get(orig, x)
               /\ Get(body, K_source_url) = ExpectedUrl
               /\ Get(body, K_agent) = ExpectedAgent

\* C2 (amended): a stored body has exactly the record's keys plus the three
\* injected ones; every original key other than harvest_timestamp,
\* source_url and agent keeps its original value; the three injected keys
\* hold the harvest time, the endpoint and "ChronicleHarvester", replacing
\* any value the source supplied under those names.
C2_Preserved ==
    \A k \in DOMAIN writes : \E i \in pool : \E j \in 1..Len(ops[i]) :
        /\ StoredFor(k, i, j)
        /\ bucket[k].content_type = "application/json"
        /\ LET body == Loads(bucket[k].data)
               orig == SourceOf(i, j)
           IN  /\ Keys(body) = Keys(orig) \cup InjectedKeys
               /\ \A x \in Keys(orig) \ InjectedKeys : Get(body, x) = Get(orig, x)
               /\ Get(body, K_source_url) = ExpectedUrl
               /\ Get(body, K_agent) = ExpectedAgent
               /\ \E t \in Timestamps :
                      Get(body, K_harvest_timestamp) = ExpectedTimes[t]

\* A record that came with its own "agent" field has been stored.
C2_Witness ==
    \E k \in DOMAIN bucket : \E j \in 1..Len(ops[1]) :
        /\ StoredFor(k, 1, j)
        /\ K_agent \in Keys(SourceOf(1, j))
        /\ Get(SourceOf(1, j), K_agent) # Get(Loads(bucket[k].data), K_agent)
        /\ Cardinality(Keys(Loads(bucket[k].data))) = 6

\* ----------------------------------------------------------------- C3
\* C3 (as stated): a transport error or a non-2xx status gives error/500,
\* no upload is attempted and the bucket is unchanged.
C3_AsStated ==
    \A i \in pool :
        (\/ status[i].got = "exception"
         \/ status[i].got = "response" /\ ~(200 <= status[i].code /\ status[i].code <= 299))
        => (Done(i) => IsError(i)) /\ NoUploadAttempted(i) /\ bucket = prior

\* C3 (amended): a transport error or a 4xx/5xx status gives error/500
\* at once, no upload is attempted and the bucket is unchanged.
C3_FetchError ==
    \A i \in pool :
        (\/ status[i].got = "exception"
         \/ status[i].got = "response" /\ 400 <= status[i].code /\ status[i].code <= 599)
        => /\ Done(i) /\ IsError(i)
           /\ HasPrefix(result[i].body.message, "HTTP request failed: ")
           /\ NoUploadAttempted(i)
           /\ bucket = prior

\* HTTP 500 from a feed that would otherwise have been harvested.
C3_Witness ==
    /\ status[1].got = "response" /\ status[1].code = 500
    /\ IsArrayOfMappings(feed) /\ Len(feed.items) >= 1
    /\ Done(1) /\ IsError(1)

\* ----------------------------------------------------------------- C4
\* The bodies C4 lists: an object, a string, a number, a boolean, null, or
\* an array with a non-mapping among its first 3 elements.
NotAnArrayOfMappings(v) ==
    \/ v.kind \in {"object", "string", "number", "float", "bool", "null"}
    \/ /\ v.kind = "array"
       /\ \E j \in 1..Min(3, Len(v.items)) : v.items[j].kind # "object"

\* C4: a fetch that succeeds with a JSON value that is not an array of
\* mappings ends in error/500.
C4_MalformedIsError ==
    \A i \in pool :
        (Done(i) /\ FetchPassed(i) /\ NotAnArrayOfMappings(feed)) => IsError(i)

\* ----------------------------------------------------------------- C5
\* C5: an invocation only ever ends by returning success/200 or error/500;
\* no failure leaves the handler as an exception.
C5_AlwaysReturns ==
    \A i \in pool :
        /\ pc[i] # "raised"
        /\ Done(i) => (IsSuccess(i) \/ IsError(i))

\* ----------------------------------------------------------------- C6
\* C6 (as stated): at a success return the bucket holds, for each selected
\* entry, an object whose body is that entry's annotated record.
C6_AsStated ==
    \A i \in pool :
        (Done(i) /\ IsSuccess(i) /\ feed.kind = "array")
        => \A j \in 1..Min(Len(feed.items), 3) :
               \E k \in DOMAIN bucket : bucket[k].data = Dumps(batch[i][j])

\* C6 (amended): at a success return every selected entry has been uploaded,
\* with its annotated record as the body, and the upload completed; an
\* object exists under the key of each of these uploads, and it holds that
\* entry's annotated record unless another upload was made under the same
\* key.
C6_AllUploaded ==
    \A i \in pool :
        (Done(i) /\ IsSuccess(i) /\ feed.kind = "array")
        => /\ Len(batch[i]) = Min(Len(feed.items), 3)
           /\ \A j \in 1..Min(Len(feed.items), 3) :
               \E c \in StoredCalls(i) :
                  /\ ops[i][c].entry = j
                  /\ ops[i][c].data = Dumps(batch[i][j])
                  /\ ops[i][c].key \in DOMAIN bucket
                  /\ Len(writes[ops[i][c].key]) = 1
                        => bucket[ops[i][c].key].data = ops[i][c].data

\* Success over three entries, each found in the bucket.
C6_Witness ==
    /\ Done(1) /\ IsSuccess(1) /\ feed.kind = "array"
    /\ Len(batch[1]) = 3
    /\ \A j \in 1..3 : \E k \in DOMAIN bucket : bucket[k].data = Dumps(batch[1][j])

\* ----------------------------------------------------------------- C7
\* The loop body failed at the k-th selected entry: its upload raised, or
\* the entry does not take an item assignment.
FailedAt(i, k) ==
    /\ Done(i)
    /\ k \in 1..Len(batch[i])
    /\ \/ idx[i] = k /\ ~Assignable(batch[i][k])
       \/ \E c \in 1..Len(ops[i]) :
             IsUpload(i, c) /\ ~ops[i][c].ok /\ ops[i][c].entry = k

\* C7 (as stated): if annotating or uploading the k-th selected entry
\* fails, the result is error/500, the k-1 objects uploaded earlier in the
\* invocation remain in the bucket and nothing after the failing entry is
\* uploaded.
C7_AsStated ==
    \A i \in pool : \A k \in 1..SampleSize :
        FailedAt(i, k)
        => /\ IsError(i)
           /\ \A j \in 1..(k - 1) :
                 /\ IsStored(i, j + 1)
                 /\ ops[i][j + 1].key \in DOMAIN bucket
                 /\ bucket[ops[i][j + 1].key].data = ops[i][j + 1].data
           /\ Cardinality({ops[i][j + 1].key : j \in 1..(k - 1)}) = k - 1
           /\ \A j \in 1..Len(ops[i]) : IsUpload(i, j) => ops[i][j].entry <= k

\* C7 (amended): if annotating or uploading the k-th selected entry fails,
\* the result is error/500; the k-1 earlier uploads are not undone: each of
\* their keys names an object, which holds the record of the latest upload
\* made under that key (the entry's own record if no later upload drew the
\* key), so k-1 distinct objects remain exactly when the k-1 keys are
\* pairwise distinct; objects the bucket held before are still there; and
\* nothing after the failing entry is uploaded.
C7_NoRollback ==
    \A i \in pool : \A k \in 1..SampleSize :
        FailedAt(i, k)
        => LET keys == {ops[i][j + 1].key : j \in 1..(k - 1)} IN
           /\ IsError(i)
           /\ Len(uploaded_files[i]) = k - 1
           /\ \A j \in 1..(k - 1) :
                 /\ IsStored(i, j + 1)
                 /\ ops[i][j + 1].entry = j
                 /\ ops[i][j + 1].key = uploaded_files[i][j]
                 /\ uploaded_files[i][j] \in DOMAIN bucket
                 /\ bucket[uploaded_files[i][j]].data
                       = ops[Writer(uploaded_files[i][j])[1]]
                            [Writer(uploaded_files[i][j])[2]].data
                 /\ (/\ \A h \in (j + 1)..(k - 1) :
                           ops[i][h + 1].key # ops[i][j + 1].key
                     /\ \A w \in Range(writes[uploaded_files[i][j]]) : w[1] = i)
                    => bucket[uploaded_files[i][j]].data = ops[i][j + 1].data
           /\ Cardinality(keys) <= k - 1
           /\ (Cardinality(keys) = k - 1)
                 <=> \A j, h \in 1..(k - 1) :
                        j # h => ops[i][j + 1].key # ops[i][h + 1].key
           /\ \A q \in DOMAIN prior :
                 /\ q \in DOMAIN bucket
                 /\ q \notin DOMAIN writes => bucket[q] = prior[q]
           /\ \A j \in 1..Len(ops[i]) : IsUpload(i, j) => ops[i][j].entry <= k
           /\ Cardinality(StoredCalls(i)) = k - 1

\* The third upload failed after two objects were stored next to an
\* earlier one.
C7_Witness ==
    /\ FailedAt(1, 3)
    /\ IsUpload(1, Len(ops[1]))
    /\ prior # << >>
    /\ Cardinality(DOMAIN bucket) = 3

\* ----------------------------------------------------------------- C9
\* C9: the external calls of one invocation are one GET followed by the
\* uploads of entries 1, 2, ... in that order, each made once, and a failed
\* call is the last call of the invocation.
C9_OneSequence ==
    \A i \in pool :
        /\ pc[i] \in {"loop", "done"} => Len(ops[i]) >= 1
        /\ pc[i] \in {"start", "fetch", "raised"} => ops[i] = << >>
        /\ \A j \in 1..Len(ops[i]) :
              /\ (j = 1) <=> (ops[i][j].op = "GET")
              /\ j > 1 => (ops[i][j].op = "upload" /\ ops[i][j].entry = j - 1)
              /\ j < Len(ops[i]) => ops[i][j].ok
              /\ ~ops[i][j].ok => (Done(i) /\ IsError(i))
        /\ Len(ops[i]) <= 1 + SampleSize

\* A GET and two uploads, the second of which failed.
C9_Witness ==
    /\ Done(1) /\ Len(ops[1]) = 3
    /\ ops[1][2].ok /\ ~ops[1][3].ok

\* ----------------------------------------------------------------- C10
\* C10 (as stated): every path of a success result names an object in the
\* bucket whose body is the annotated record at the same position, the
\* paths of one result are pairwise distinct, and an error result carries a
\* message and no uploaded_files.
C10_AsStated ==
    \A i \in pool :
        Done(i)
        => IF IsSuccess(i)
           THEN LET paths == result[i].body.uploaded_files IN
                /\ \A j \in 1..Len(paths) :
                      /\ paths[j] \in DOMAIN bucket
                      /\ bucket[paths[j]].data = Dumps(batch[i][j])
                /\ \A j, h \in 1..Len(paths) : j # h => paths[j] # paths[h]
           ELSE DOMAIN result[i].body = {"status", "message"}

\* C10 (amended): every path of a success result names an object in the
\* bucket; its body is the annotated record at the same position unless
\* another upload was made under the same key; two paths of one result are
\* equal exactly when the two uploads drew the same timestamp and the same
\* suffix; an error result carries a message and no uploaded_files, even
\* when objects were persisted before the failure.
C10_Paths ==
    \A i \in pool :
        Done(i)
        => IF IsSuccess(i)
           THEN LET paths == result[i].body.uploaded_files IN
                /\ DOMAIN result[i].body = {"status", "uploaded_files"}
                /\ Len(paths) = Len(batch[i])
                /\ \A j \in 1..Len(paths) :
                      /\ paths[j] \in DOMAIN bucket
                      /\ Len(writes[paths[j]]) = 1
                            => bucket[paths[j]].data = Dumps(batch[i][j])
                /\ \A j, h \in 1..Len(paths) :
                      (paths[j] = paths[h])
                      <=> /\ ops[i][j + 1].timestamp = ops[i][h + 1].timestamp
                          /\ ops[i][j + 1].suffix = ops[i][h + 1].suffix
           ELSE /\ DOMAIN result[i].body = {"status", "message"}
                /\ result[i].code = 500

\* An error result returned after two uploads of the invocation that drew
\* the same suffix at different clock readings.
C10_Witness ==
    /\ Done(1) /\ ~IsSuccess(1)
    /\ DOMAIN result[1].body = {"status", "message"}
    /\ Len(ops[1]) = 4
    /\ ops[1][2].suffix = ops[1][3].suffix
    /\ ops[1][2].timestamp # ops[1][3].timestamp
    /\ Cardinality(DOMAIN writes) = 2

\* ----------------------------------------------------------------- C8
AllStored == {<<i, c>> : i \in pool, c \in 1..(1 + SampleSize)}
Stored(x) == IsStored(x[1], x[2])
Call(x) == ops[x[1]][x[2]]

\* C8 (as stated): across all invocations the generated keys are pairwise
\* distinct, so every object is created once and never written again.
C8_AsStated ==
    /\ \A x, y \in AllStored :
          (Stored(x) /\ Stored(y) /\ x # y) => Call(x).key # Call(y).key
    /\ \A k \in DOMAIN writes : Len(writes[k]) = 1 /\ k \notin DOMAIN prior

\* C8 (amended): two uploads, of the same or of different invocations, get
\* the same key exactly when they drew the same timestamp and the same
\* 8-digit suffix; no object is ever deleted; an object that no upload has
\* named since is unchanged, and an object named by one or more uploads
\* holds the body of the latest of them; two invocations none of whose
\* uploads share both draws leave disjoint sets of objects.
C8_KeysFollowDraws ==
    /\ \A x \in AllStored :
          Stored(x)
          => /\ \A y \in AllStored :
                   Stored(y)
                   => ((Call(x).key = Call(y).key)
                       <=> /\ Call(x).timestamp = Call(y).timestamp
                           /\ Call(x).suffix = Call(y).suffix)
             /\ Call(x).key \in DOMAIN writes
             /\ Range(writes[Call(x).key])
                   = {y \in AllStored : Stored(y) /\ Call(y).key = Call(x).key}
             /\ Len(writes[Call(x).key])
                   = Cardinality(Range(writes[Call(x).key]))
    /\ DOMAIN bucket = DOMAIN prior \cup DOMAIN writes
    /\ \A k \in DOMAIN bucket :
          IF k \in DOMAIN writes
          THEN /\ bucket[k].data = Call(Writer(k)).data
               /\ \A m, n \in 1..Len(writes[k]) :
                     (m < n /\ writes[k][m][1] = writes[k][n][1])
                     => writes[k][m][2] < writes[k][n][2]
          ELSE bucket[k] = prior[k]
    /\ \A i, h \in pool :
          (/\ i # h
           /\ \A c \in StoredCalls(i) : \A d \in StoredCalls(h) :
                 \/ ops[i][c].timestamp # ops[h][d].timestamp
                 \/ ops[i][c].suffix # ops[h][d].suffix)
          => Range(uploaded_files[i]) \cap Range(uploaded_files[h]) = {}

\* Two invocations over the same feed of two records that left four
\* objects, no key shared.
C8_Witness ==
    /\ Done(1) /\ Done(2) /\ IsSuccess(1) /\ IsSuccess(2)
    /\ Len(uploaded_files[1]) = 2 /\ Len(uploaded_files[2]) = 2
    /\ Range(uploaded_files[1]) \cap Range(uploaded_files[2]) = {}
    /\ Cardinality(DOMAIN writes) = 4
====
